---- MODULE Spec2Model ----
(***************************************************************************)
(* A model of the Scopus_APIs notebook (chennesy/elsevier_apis):           *)
(*   - the pagination while-loop over the Scopus Search API,               *)
(*   - search_builder, the query string builder,                           *)
(*   - create_url, the request URL formatter (both variants).              *)
(* Strings are sequences of one-character strings, so that formatting,     *)
(* concatenation and substring search are computed, not assumed.           *)
(***************************************************************************)
EXTENDS Integers, Sequences, FiniteSets, TLC

(***************************************************************************)
(* Bounds of the model.                                                    *)
(***************************************************************************)
\* iterations of the while-loop explored in one pagination run
MaxFetches == 3
\* executions of the pagination cell (StartRun) explored
MaxRuns == 2
\* fields of the mapping given to search_builder
MaxFields == 3
\* characters of the query (or DOI) given to create_url
MaxQueryLen == 2
\* characters of the API key
MaxKeyLen == 1

(***************************************************************************)
(* The server's answers: what requests.get can return to one call.         *)
(***************************************************************************)
\* cursor tokens: '*' is the initial cursor, the others are opaque
Cursors == {"*", "A", "B"}
\* the 'entry' list of a page: a list of records (records are named)
Entries == {<<>>, <<"r1">>, <<"r2", "r3">>}
\* opensearch:totalResults and X-RateLimit-Remaining, after int()
Totals == {2}
Remainings == {0, 2, 3}
\* HTTP statuses for which raise_for_status raises
FailStatuses == {429, 500}

Pages ==
    [current : Cursors, next : Cursors, entry : Entries,
     total : Totals, remaining : Remainings]

\* df before any cell has bound it (using it raises NameError)
NoDF == <<"unbound">>
NoErr == [kind |-> "none", status |-> 0]
HTTPError(s) == [kind |-> "HTTPError", status |-> s]
NameError == [kind |-> "NameError", status |-> 0]

VARIABLES
    next_,      \* the notebook global next_
    flag,       \* the notebook global flag
    df,         \* the notebook global df (the ResultSet), or NoDF
    params,     \* params['cursor'] of connect_to_endpoint's default dict
    outcome,    \* "IDLE", "RUNNING", "DONE", "QUOTA_EXCEEDED", "ERROR"
    err,        \* the exception that left the cell, or NoErr
    warned,     \* the "Too many results" warning was printed in this run
    runs,       \* executions of the pagination cell so far
    fetches,    \* requests.get calls issued by this run
    sleeps,     \* time.sleep calls made by this run
    calls,      \* the calls of the latest iteration of this run, in order
    sent,       \* cursor sent with the latest GET of this run
    lastPage,   \* cursor pair and records of the latest page of this run
    lastOver,   \* the latest page reported total-results > rate-remaining
    lastStatus, \* HTTP status of the latest response of this run
    failedAt,   \* index of the fetch of this run that failed, 0 if none
    lastStar,   \* index of the latest page of this run with current = '*'
    recsSeen,   \* records received by this run, over all its pages
    sinceStar,  \* records received since (and with) the latest '*' page,
                \* the page that ended the run in DONE excluded
    firstEq,    \* index of the first page of this run with next = current
    firstStop,  \* index of the first page with current # '*', next = current
    firstCur,   \* cursor.current of the first page of this run
    own         \* the ResultSet this run would hold had it started unbound

pvars == <<next_, flag, df, params, outcome, err, warned, runs, fetches,
           sleeps, calls, sent, lastPage, lastOver, lastStatus, failedAt, lastStar,
           recsSeen, sinceStar, firstEq, firstStop,
           firstCur, own>>

NoPage == [current |-> "-", next |-> "-", entry |-> <<>>]

(***************************************************************************)
(* search_builder: the mapping, the loop position and the string built.    *)
(***************************************************************************)
VARIABLES
    ssp,            \* search_string_parameters: the items() of the mapping
    qi,             \* index of the item the for-loop looks at next
    search_string,  \* the local search_string
    returned        \* search_builder has returned search_string

qvars == <<ssp, qi, search_string, returned>>

\* a Python value of the mapping: a str or an int
StrVal(s) == [t |-> "str", v |-> s]
IntVal(n) == [t |-> "int", v |-> n]

\* field names used by the notebook
ISSN == <<"I", "S", "S", "N">>
TITLE == <<"T", "I", "T", "L", "E">>
OPENACCESS == <<"O", "P", "E", "N", "A", "C", "C", "E", "S", "S">>
start_year == <<"s", "t", "a", "r", "t", "_", "y", "e", "a", "r">>
end_year == <<"e", "n", "d", "_", "y", "e", "a", "r">>
FieldNames == {ISSN, TITLE, OPENACCESS, start_year, end_year}

\* values a caller gives: '' and 0 (the defaults), '0', 'a AND b', 'c AND', 2015
FieldValues ==
    {StrVal(<<>>), StrVal(<<"0">>), StrVal(<<"a", " ", "A", "N", "D", " ", "b">>),
     StrVal(<<"c", " ", "A", "N", "D">>), IntVal(0), IntVal(2015)}

\* a dict: distinct keys, in insertion order
IsMapping(m) == \A i, j \in 1..Len(m) : i # j => m[i].k # m[j].k

Mappings(n) ==
    {m \in [1..n -> [k : FieldNames, v : FieldValues]] : IsMapping(m)}

Digits == <<"0", "1", "2", "3", "4", "5", "6", "7", "8", "9">>

\* str(n) for an int n >= 0
RECURSIVE Dec(_)
Dec(n) == IF n < 10 THEN <<Digits[n + 1]>>
          ELSE Dec(n \div 10) \o <<Digits[(n % 10) + 1]>>

\* f'{v}'
Fmt(v) == IF v.t = "int" THEN Dec(v.v) ELSE v.v

\* mutant: only the empty string counts as "no value"
Truthy_NonEmpty(v) == IF v.t = "int" THEN TRUE ELSE v.v # <<>>

\* the truth value of v in 'and v' / 'elif v'
Truthy(v) == IF v.t = "int" THEN v.v # 0 ELSE v.v # <<>>

Sep == <<" ", "A", "N", "D", " ">>

\* mutant: the separator is added even to an empty search_string
WithSep_Always(s) == s \o Sep

\* mutant: no separator is added
WithSep_Never(s) == s

\* if search_string != '': search_string += ' AND '
WithSep(s) == IF s # <<>> THEN s \o Sep ELSE s

\* mutant: the comparison sign of end_year
StartYearTerm_Less(v) == <<"P", "U", "B", "Y", "E", "A", "R", " ", "<", " ">> \o Fmt(v)

\* f'PUBYEAR > {v}'
StartYearTerm(v) == <<"P", "U", "B", "Y", "E", "A", "R", " ", ">", " ">> \o Fmt(v)

\* f'PUBYEAR < {v}'
EndYearTerm(v) == <<"P", "U", "B", "Y", "E", "A", "R", " ", "<", " ">> \o Fmt(v)

\* f'{k}({v})'
FieldTerm(k, v) == k \o <<"(">> \o Fmt(v) \o <<")">>

InLoop == ~returned /\ qi <= Len(ssp)

\* if k == 'start_year' and v
QB_StartYear ==
    /\ InLoop
    /\ ssp[qi].k = start_year /\ Truthy(ssp[qi].v)
    /\ search_string' = WithSep(search_string) \o StartYearTerm(ssp[qi].v)
    /\ qi' = qi + 1
    /\ UNCHANGED <<ssp, returned>>

\* elif k == 'end_year' and v
QB_EndYear ==
    /\ InLoop
    /\ ssp[qi].k = end_year /\ Truthy(ssp[qi].v)
    /\ search_string' = WithSep(search_string) \o EndYearTerm(ssp[qi].v)
    /\ qi' = qi + 1
    /\ UNCHANGED <<ssp, returned>>

\* elif v
QB_Field ==
    /\ InLoop
    /\ ssp[qi].k \notin {start_year, end_year} /\ Truthy(ssp[qi].v)
    /\ search_string' =
           WithSep(search_string) \o FieldTerm(ssp[qi].k, ssp[qi].v)
    /\ qi' = qi + 1
    /\ UNCHANGED <<ssp, returned>>

\* no branch taken: the item adds nothing
QB_Skip ==
    /\ InLoop
    /\ ~Truthy(ssp[qi].v)
    /\ qi' = qi + 1
    /\ UNCHANGED <<ssp, search_string, returned>>

\* return search_string
QB_Return ==
    /\ ~returned
    /\ qi > Len(ssp)
    /\ returned' = TRUE
    /\ UNCHANGED <<ssp, qi, search_string>>

\* search_string = '' on entry, for any mapping the caller built
QB_Init ==
    /\ \E n \in 0..MaxFields : ssp \in Mappings(n)
    /\ qi = 1
    /\ search_string = <<>>
    /\ returned = FALSE

QB_Next ==
    \/ QB_StartYear
    \/ QB_EndYear
    \/ QB_Field
    \/ QB_Skip
    \/ QB_Return

\* the query builder at rest, while another cell is looked at
QB_Idle ==
    /\ ssp = <<>>
    /\ qi = 1
    /\ search_string = <<>>
    /\ returned = FALSE

(***************************************************************************)
(* create_url: the global api_key, the definition of create_url that is    *)
(* bound (the DOI cell redefines it) and the URL built last.               *)
(***************************************************************************)
VARIABLES
    api_key,     \* the notebook global api_key
    bound,       \* which create_url is defined: "none", "search", "doi"
    url_arg,     \* the argument of the latest create_url call
    url_key,     \* api_key as it was at the latest create_url call
    url_kind,    \* the create_url that served the latest call
    full_url     \* the notebook global full_url, or NoURL

uvars == <<api_key, bound, url_arg, url_key, url_kind, full_url>>

NoURL == "unbound"

\* all strings over the characters cs of length at most n
Strings(cs, n) == UNION {[1..k -> cs] : k \in 0..n}

\* queries and DOIs: braces are Scopus' exact-phrase syntax
Queries == Strings({"a", "{", "}"}, MaxQueryLen)
Keys == Strings({"k", "{"}, MaxKeyLen)

SearchTemplate ==
    <<"h", "t", "t", "p", "s", ":", "/", "/", "a", "p", "i", ".",
      "e", "l", "s", "e", "v", "i", "e", "r", ".", "c", "o", "m",
      "/", "c", "o", "n", "t", "e", "n", "t", "/", "s", "e", "a",
      "r", "c", "h", "/", "s", "c", "o", "p", "u", "s", "?", "q",
      "u", "e", "r", "y", "=", "{", "q", "u", "e", "r", "y", "}",
      "&", "a", "p", "i", "K", "e", "y", "=", "{", "a", "p", "i",
      "_", "k", "e", "y", "}">>

DoiTemplate ==
    <<"h", "t", "t", "p", "s", ":", "/", "/", "a", "p", "i", ".",
      "e", "l", "s", "e", "v", "i", "e", "r", ".", "c", "o", "m",
      "/", "c", "o", "n", "t", "e", "n", "t", "/", "a", "b", "s",
      "t", "r", "a", "c", "t", "/", "d", "o", "i", "/", "{", "d",
      "o", "i", "}", "?", "&", "a", "p", "i", "K", "e", "y", "=",
      "{", "a", "p", "i", "_", "k", "e", "y", "}">>

query_ == <<"q", "u", "e", "r", "y">>
api_key_ == <<"a", "p", "i", "_", "k", "e", "y">>
doi_ == <<"d", "o", "i">>

\* index of the first "}" of t
RECURSIVE CloseAt(_, _)
CloseAt(t, i) == IF i > Len(t) \/ t[i] = "}" THEN i ELSE CloseAt(t, i + 1)

\* mutant: only the first replacement field is substituted
RECURSIVE Format_FirstOnly(_, _)
Format_FirstOnly(t, kw) ==
    IF t = <<>> THEN <<>>
    ELSE IF Head(t) = "{"
         THEN kw[SubSeq(t, 2, CloseAt(t, 1) - 1)]
              \o SubSeq(t, CloseAt(t, 1) + 1, Len(t))
         ELSE <<Head(t)>> \o Format_FirstOnly(Tail(t), kw)

\* t.format(**kw): every {name} of the template is replaced by kw[name];
\* the values are copied and not scanned again
RECURSIVE Format(_, _)
Format(t, kw) ==
    IF t = <<>> THEN <<>>
    ELSE IF Head(t) = "{"
         THEN kw[SubSeq(t, 2, CloseAt(t, 1) - 1)]
              \o Format(SubSeq(t, CloseAt(t, 1) + 1, Len(t)), kw)
         ELSE <<Head(t)>> \o Format(Tail(t), kw)

\* the keyword arguments of a format call
Kwargs(n1, v1, n2, v2) == [n \in {n1, n2} |-> IF n = n1 THEN v1 ELSE v2]

\* mutant: the two values are passed under each other's name
create_url_search_swapped(q, key) ==
    Format(SearchTemplate, Kwargs(query_, key, api_key_, q))

\* create_url(search_string), Scopus Search API
create_url_search(q, key) ==
    Format(SearchTemplate, Kwargs(query_, q, api_key_, key))

\* create_url(doi), Abstract Retrieval API
create_url_doi(d, key) ==
    Format(DoiTemplate, Kwargs(doi_, d, api_key_, key))

\* api_key = '...'
SetApiKey ==
    /\ \E k \in Keys : api_key' = k
    /\ UNCHANGED <<bound, url_arg, url_key, url_kind, full_url>>

\* the cell that defines create_url for the Scopus Search API is run
DefineSearch ==
    /\ bound # "search"
    /\ bound' = "search"
    /\ UNCHANGED <<api_key, url_arg, url_key, url_kind, full_url>>

\* the cell that redefines create_url for the Abstract Retrieval API is run
DefineDoi ==
    /\ bound # "doi"
    /\ bound' = "doi"
    /\ UNCHANGED <<api_key, url_arg, url_key, url_kind, full_url>>

\* full_url = create_url(search_string)
CreateUrlSearch ==
    /\ bound = "search"
    /\ \E q \in Queries :
        /\ url_arg' = q
        /\ full_url' = create_url_search(q, api_key)
    /\ url_key' = api_key
    /\ url_kind' = "search"
    /\ UNCHANGED <<api_key, bound>>

\* full_url = create_url(doi)
CreateUrlDoi ==
    /\ bound = "doi"
    /\ \E d \in Queries :
        /\ url_arg' = d
        /\ full_url' = create_url_doi(d, api_key)
    /\ url_key' = api_key
    /\ url_kind' = "doi"
    /\ UNCHANGED <<api_key, bound>>

\* a fresh kernel after the cell api_key = ''
URL_Init ==
    /\ api_key = <<>>
    /\ bound = "none"
    /\ url_arg = <<>>
    /\ url_key = <<>>
    /\ url_kind = "none"
    /\ full_url = NoURL

(***************************************************************************)
(* The body of one iteration, as pure functions of df and the page.        *)
(***************************************************************************)
IsFirstPage(p) == p.current = "*"

\* mutant: the guard also fires when the counts are equal
QuotaExceeded_GE(p) == p.total >= p.remaining

QuotaExceeded(p) == p.total > p.remaining

IsLastPage(p) == p.next = p.current

\* mutant: the quota guard is evaluated on every page
Branch_QuotaEveryPage(p) ==
    IF QuotaExceeded(p) THEN "quota"
    ELSE IF IsFirstPage(p) THEN "first"
    ELSE IF IsLastPage(p) THEN "last"
    ELSE "mid"

\* mutant: the last-page test comes before the first-page test
Branch_LastFirst(p) ==
    IF IsLastPage(p) THEN "last"
    ELSE IF IsFirstPage(p) THEN (IF QuotaExceeded(p) THEN "quota" ELSE "first")
    ELSE "mid"

\* the branch of the if / elif / else an iteration takes
Branch(p) ==
    IF IsFirstPage(p) THEN (IF QuotaExceeded(p) THEN "quota" ELSE "first")
    ELSE IF IsLastPage(p) THEN "last"
    ELSE "mid"

\* len(df) and pd.concat([df, df_add]) raise NameError while df is unbound
Raises(d, p) == Branch(p) \in {"last", "mid"} /\ d = NoDF

\* mutant: the last page's records are appended too
NextDF_AppendLast(d, p) ==
    CASE Branch(p) \in {"quota", "first"} -> p.entry
      [] Branch(p) \in {"last", "mid"} -> IF d = NoDF THEN d ELSE d \o p.entry

\* mutant: pd.concat([df_add, df])
NextDF_Prepend(d, p) ==
    CASE Branch(p) \in {"quota", "first"} -> p.entry
      [] Branch(p) = "last" -> d
      [] Branch(p) = "mid" -> IF d = NoDF THEN d ELSE p.entry \o d

\* the value of df after the iteration
NextDF(d, p) ==
    CASE Branch(p) \in {"quota", "first"} -> p.entry
      [] Branch(p) = "last" -> d
      [] Branch(p) = "mid" -> IF d = NoDF THEN d ELSE d \o p.entry

\* the ghost 'own' follows the same code from an unbound df
NextOwn(o, p) ==
    IF o = <<"crashed">> \/ Raises(o, p) THEN <<"crashed">> ELSE NextDF(o, p)

Size(d) == IF d = NoDF THEN 0 ELSE Len(d)

(***************************************************************************)
(* Operations.                                                             *)
(***************************************************************************)
CanStart == outcome # "RUNNING" /\ runs < MaxRuns

\* next_ = '*' ; flag = True
StartRun ==
    /\ CanStart
    /\ next_' = "*"
    /\ flag' = TRUE
    /\ outcome' = "RUNNING"
    /\ err' = NoErr
    /\ warned' = FALSE
    /\ runs' = runs + 1
    /\ fetches' = 0
    /\ sleeps' = 0
    /\ calls' = <<>>
    /\ sent' = "-"
    /\ lastPage' = NoPage
    /\ lastOver' = FALSE
    /\ lastStatus' = 0
    /\ failedAt' = 0
    /\ lastStar' = 0
    /\ recsSeen' = 0
    /\ sinceStar' = 0
    /\ firstEq' = 0
    /\ firstStop' = 0
    /\ firstCur' = "-"
    /\ own' = NoDF
    /\ UNCHANGED <<df, params>>

CanIterate == outcome = "RUNNING" /\ flag /\ fetches < MaxFetches

\* mutant: the pause is taken only between two fetches, not before the first
Request_NoFirstPause ==
    /\ sleeps' = IF fetches = 0 THEN sleeps ELSE sleeps + 1
    /\ calls' = IF fetches = 0 THEN <<"get">> ELSE <<"sleep", "get">>
    /\ params' = next_
    /\ sent' = next_
    /\ fetches' = fetches + 1

\* what every iteration does before the response is looked at:
\* time.sleep, create_url, params['cursor'] = next_, requests.get
Request ==
    /\ sleeps' = sleeps + 1
    /\ calls' = <<"sleep", "get">>
    /\ params' = next_
    /\ sent' = next_
    /\ fetches' = fetches + 1

\* the ghosts that record the page received
Record(p) ==
    /\ lastPage' = [current |-> p.current, next |-> p.next, entry |-> p.entry]
    /\ lastOver' = (p.total > p.remaining)
    /\ lastStatus' = 200
    /\ failedAt' = failedAt
    /\ lastStar' = IF p.current = "*" THEN fetches + 1 ELSE lastStar
    /\ recsSeen' = recsSeen + Len(p.entry)
    /\ sinceStar' = CASE p.current = "*" -> Len(p.entry)
                      [] p.current # "*" /\ p.next = p.current -> sinceStar
                      [] OTHER -> sinceStar + Len(p.entry)
    /\ firstEq' = IF firstEq = 0 /\ p.next = p.current
                  THEN fetches + 1 ELSE firstEq
    /\ firstStop' = IF firstStop = 0 /\ p.current # "*" /\ p.next = p.current
                    THEN fetches + 1 ELSE firstStop
    /\ firstCur' = IF fetches = 0 THEN p.current ELSE firstCur
    /\ own' = NextOwn(own, p)

\* mutant: the failure is swallowed and the loop goes on to fetch again
FetchFail_Retry ==
    /\ CanIterate
    /\ Request
    /\ \E s \in FailStatuses :
        /\ lastStatus' = s
        /\ err' = HTTPError(s)
    /\ failedAt' = fetches + 1
    /\ UNCHANGED <<next_, flag, df, outcome, warned, runs, lastPage, lastOver,
                   lastStar, recsSeen, sinceStar, firstEq, firstStop, firstCur,
                   own>>

\* mutant: the failure drops what the run had accumulated
FetchFail_Discard ==
    /\ CanIterate
    /\ Request
    /\ \E s \in FailStatuses :
        /\ lastStatus' = s
        /\ err' = HTTPError(s)
    /\ failedAt' = fetches + 1
    /\ outcome' = "ERROR"
    /\ df' = <<>>
    /\ UNCHANGED <<next_, flag, warned, runs, lastPage, lastOver, lastStar,
                   recsSeen, sinceStar, firstEq, firstStop, firstCur, own>>

\* r.raise_for_status() raises: the exception leaves the while-loop
FetchFail ==
    /\ CanIterate
    /\ Request
    /\ \E s \in FailStatuses :
        /\ lastStatus' = s
        /\ err' = HTTPError(s)
    /\ failedAt' = fetches + 1
    /\ outcome' = "ERROR"
    /\ UNCHANGED <<next_, flag, df, warned, runs, lastPage, lastOver, lastStar,
                   recsSeen, sinceStar, firstEq, firstStop, firstCur, own>>

\* first-page branch, quota guard passes
FirstPage ==
    /\ CanIterate
    /\ Request
    /\ \E p \in Pages :
        /\ Branch(p) = "first"
        /\ Record(p)
        /\ df' = NextDF(df, p)
        /\ next_' = p.next
    /\ UNCHANGED <<flag, outcome, err, warned, runs>>

\* first-page branch, quota guard fires: break (line 481 is skipped)
FirstPageQuota ==
    /\ CanIterate
    /\ Request
    /\ \E p \in Pages :
        /\ Branch(p) = "quota"
        /\ Record(p)
        /\ df' = NextDF(df, p)
    /\ warned' = TRUE
    /\ outcome' = "QUOTA_EXCEEDED"
    /\ UNCHANGED <<next_, flag, err, runs>>

\* mutant: the last-page branch forgets flag = False
LastPage_KeepFlag ==
    /\ CanIterate
    /\ Request
    /\ \E p \in Pages :
        /\ Branch(p) = "last"
        /\ ~Raises(df, p)
        /\ Record(p)
        /\ df' = NextDF(df, p)
        /\ next_' = p.next
    /\ UNCHANGED <<flag, outcome, err, warned, runs>>

\* last-page branch: flag = False, then the while test ends the loop
LastPage ==
    /\ CanIterate
    /\ Request
    /\ \E p \in Pages :
        /\ Branch(p) = "last"
        /\ ~Raises(df, p)
        /\ Record(p)
        /\ df' = NextDF(df, p)
        /\ next_' = p.next
    /\ flag' = FALSE
    /\ outcome' = "DONE"
    /\ UNCHANGED <<err, warned, runs>>

\* middle-page branch: df = pd.concat([df, df_add])
MidPage ==
    /\ CanIterate
    /\ Request
    /\ \E p \in Pages :
        /\ Branch(p) = "mid"
        /\ ~Raises(df, p)
        /\ Record(p)
        /\ df' = NextDF(df, p)
        /\ next_' = p.next
    /\ UNCHANGED <<flag, outcome, err, warned, runs>>

\* last or middle branch while df is unbound: NameError leaves the loop
UnboundDF ==
    /\ CanIterate
    /\ Request
    /\ \E p \in Pages :
        /\ Raises(df, p)
        /\ Record(p)
    /\ err' = NameError
    /\ outcome' = "ERROR"
    /\ UNCHANGED <<next_, flag, df, warned, runs>>

\* a fresh kernel: no pagination run yet, df unbound
PG_Init ==
    /\ next_ = "-"
    /\ flag = FALSE
    /\ df = NoDF
    /\ params = "*"
    /\ outcome = "IDLE"
    /\ err = NoErr
    /\ warned = FALSE
    /\ runs = 0
    /\ fetches = 0
    /\ sleeps = 0
    /\ calls = <<>>
    /\ sent = "-"
    /\ lastPage = NoPage
    /\ lastOver = FALSE
    /\ lastStatus = 0
    /\ failedAt = 0
    /\ lastStar = 0
    /\ recsSeen = 0
    /\ sinceStar = 0
    /\ firstEq = 0
    /\ firstStop = 0
    /\ firstCur = "-"
    /\ own = NoDF

vars == <<pvars, qvars, uvars>>

(***************************************************************************)
(* Spec: executions of the pagination cell.                                *)
(***************************************************************************)
Init == PG_Init /\ QB_Idle /\ URL_Init

Next ==
    \/ StartRun /\ UNCHANGED <<qvars, uvars>>
    \/ FetchFail /\ UNCHANGED <<qvars, uvars>>
    \/ FirstPage /\ UNCHANGED <<qvars, uvars>>
    \/ FirstPageQuota /\ UNCHANGED <<qvars, uvars>>
    \/ LastPage /\ UNCHANGED <<qvars, uvars>>
    \/ MidPage /\ UNCHANGED <<qvars, uvars>>
    \/ UnboundDF /\ UNCHANGED <<qvars, uvars>>

Spec == Init /\ [][Next]_vars

(***************************************************************************)
(* SpecLive: one run of the cell on a fresh kernel; a started iteration of *)
(* the while-loop runs to its end and the loop goes on to the next one     *)
(* (single thread, no wait other than the pause and the GET).  Every       *)
(* iteration makes one fetch, so the fairness condition is stated on the   *)
(* fetch counter.                                                          *)
(***************************************************************************)
Iterate ==
    \/ FetchFail /\ UNCHANGED <<qvars, uvars>>
    \/ FirstPage /\ UNCHANGED <<qvars, uvars>>
    \/ FirstPageQuota /\ UNCHANGED <<qvars, uvars>>
    \/ LastPage /\ UNCHANGED <<qvars, uvars>>
    \/ MidPage /\ UNCHANGED <<qvars, uvars>>
    \/ UnboundDF /\ UNCHANGED <<qvars, uvars>>

\* the first execution of the cell after the kernel started
StartFresh == runs = 0 /\ StartRun

NextLive ==
    \/ StartFresh /\ UNCHANGED <<qvars, uvars>>
    \/ Iterate

SpecLive == Init /\ [][NextLive]_vars /\ WF_fetches(Iterate)

(***************************************************************************)
(* SpecQB: one call of search_builder on any mapping.                      *)
(***************************************************************************)
InitQB == QB_Init /\ PG_Init /\ URL_Init

NextQB ==
    \/ QB_StartYear /\ UNCHANGED <<pvars, uvars>>
    \/ QB_EndYear /\ UNCHANGED <<pvars, uvars>>
    \/ QB_Field /\ UNCHANGED <<pvars, uvars>>
    \/ QB_Skip /\ UNCHANGED <<pvars, uvars>>
    \/ QB_Return /\ UNCHANGED <<pvars, uvars>>

SpecQB == InitQB /\ [][NextQB]_vars

(***************************************************************************)
(* SpecURL: the cells that set api_key, define create_url and call it.     *)
(***************************************************************************)
InitURL == URL_Init /\ PG_Init /\ QB_Idle

NextURL ==
    \/ SetApiKey /\ UNCHANGED <<pvars, qvars>>
    \/ DefineSearch /\ UNCHANGED <<pvars, qvars>>
    \/ DefineDoi /\ UNCHANGED <<pvars, qvars>>
    \/ CreateUrlSearch /\ UNCHANGED <<pvars, qvars>>
    \/ CreateUrlDoi /\ UNCHANGED <<pvars, qvars>>

SpecURL == InitURL /\ [][NextURL]_vars

(***************************************************************************)
(* Claims about the pagination loop, checked under Spec.                   *)
(***************************************************************************)
\* a run in which no fetch failed, no NameError was raised and the quota
\* guard did not fire
CleanRun == outcome \in {"RUNNING", "DONE"}

\* C1 (as stated): when the k-th page (k >= 2) is the first with
\* cursor.next = cursor.current and the run has stopped there, the ResultSet
\* size is the sum of the record counts of all k pages.
C1_Original ==
    (outcome = "DONE" /\ firstEq >= 2 /\ fetches = firstEq)
        => Size(df) = recsSeen

\* C1 (amended): in a run whose first page has cursor.current = '*', with no
\* failed fetch and no quota stop, the loop ends exactly at the first page k
\* whose cursor.current is not '*' and whose cursor.next = cursor.current;
\* that page's records are not added: the ResultSet size is the sum of the
\* record counts of the pages before it, counted from the latest '*' page
\* (pages 1..k-1 when only page 1 has '*').
C1_TerminatesAtFirstStop ==
    (CleanRun /\ firstCur = "*") =>
        /\ (firstStop = 0) <=> (outcome = "RUNNING")
        /\ outcome = "DONE" =>
            /\ fetches = firstStop
            /\ firstStop >= 2
            /\ Size(df) = sinceStar
            /\ lastStar = 1 => Size(df) = recsSeen - Len(lastPage.entry)

C1_Witness ==
    /\ outcome = "DONE"
    /\ firstCur = "*"
    /\ fetches = 2
    /\ firstEq = 2
    /\ Len(lastPage.entry) = 2
    /\ Size(df) = 1
    /\ recsSeen = 3

\* C2: a first page with cursor.current = '*' whose total-results exceeds
\* rate-remaining stops the run after that one fetch in QUOTA_EXCEEDED, with
\* the warning printed and the ResultSet equal to that page's records;
\* otherwise the run is not in QUOTA_EXCEEDED and goes on with
\* cursor = page.cursor.next.
C2_QuotaGuard ==
    (fetches = 1 /\ lastPage.current = "*") =>
        IF lastOver
        THEN /\ outcome = "QUOTA_EXCEEDED"
             /\ warned
             /\ df = lastPage.entry
             /\ ~CanIterate
        ELSE /\ outcome = "RUNNING"
             /\ ~warned
             /\ flag
             /\ next_ = lastPage.next

C2_Witness ==
    /\ fetches = 1
    /\ lastPage.current = "*"
    /\ lastOver
    /\ outcome = "QUOTA_EXCEEDED"
    /\ df = <<"r2", "r3">>

\* C3: a fetch that fails with an HTTP status error ends the run in ERROR at
\* once: no later fetch is issued in the run, the failed fetch is not retried
\* and the exception the caller sees carries the status of the response.
C3_ErrorPropagates ==
    (failedAt # 0) =>
        /\ outcome = "ERROR"
        /\ fetches = failedAt
        /\ err = HTTPError(lastStatus)
        /\ lastStatus \in FailStatuses
        /\ ~CanIterate

C3_Witness ==
    /\ failedAt = 2
    /\ outcome = "ERROR"
    /\ err = HTTPError(429)

\* the run accumulated records into df before the fetch that failed
FailedAfterAccumulating == failedAt >= 2 /\ lastStar >= 1 /\ sinceStar > 0

\* C4 (as stated): after a fetch failed once pages had been accumulated,
\* the ResultSet the caller sees holds none of the accumulated records.
C4_Original == FailedAfterAccumulating => Size(df) = 0

\* C4 (amended): the failed fetch leaves df as it was: after the failure the
\* ResultSet the caller sees still holds all the records accumulated before.
C4_PartialResultsKept ==
    (failedAt >= 2 /\ lastStar >= 1) =>
        /\ outcome = "ERROR"
        /\ df # NoDF
        /\ Size(df) = sinceStar

C4_Witness ==
    /\ failedAt = 3
    /\ outcome = "ERROR"
    /\ df = <<"r1", "r2", "r3">>

\* C5: at every point of a run after its first fetch, the ResultSet is what
\* the pages of this run alone produce (the loop run from an unbound df),
\* and the cursor sent first is '*'.
C5_NoSharedState ==
    (outcome # "IDLE" /\ fetches >= 1) =>
        /\ fetches = 1 => sent = "*"
        /\ IF own = <<"crashed">> THEN err = NameError ELSE df = own

(***************************************************************************)
(* Claims about search_builder, checked under SpecQB.                      *)
(***************************************************************************)
\* s.count(pat): the non-overlapping occurrences of pat in s, left to right
RECURSIVE Count(_, _)
Count(s, pat) ==
    IF Len(s) < Len(pat) THEN 0
    ELSE IF SubSeq(s, 1, Len(pat)) = pat
         THEN 1 + Count(SubSeq(s, Len(pat) + 1, Len(s)), pat)
         ELSE Count(Tail(s), pat)

\* pat in s
Contains(s, pat) ==
    \E i \in 1..(Len(s) - Len(pat) + 1) : SubSeq(s, i, i + Len(pat) - 1) = pat

\* a non-default value: neither the empty string nor zero
NonDefault(v) == v # StrVal(<<>>) /\ v # IntVal(0)

NonDefaultFields(m) == {i \in 1..Len(m) : NonDefault(m[i].v)}

\* the text of a value as the caller wrote it
ValueText(v) == IF v = IntVal(2015) THEN <<"2", "0", "1", "5">> ELSE v.v

\* the term the specification gives for field k with value v
TermFor(k, v) ==
    IF k = start_year THEN <<"P", "U", "B", "Y", "E", "A", "R", " ", ">", " ">> \o ValueText(v)
    ELSE IF k = end_year THEN <<"P", "U", "B", "Y", "E", "A", "R", " ", "<", " ">> \o ValueText(v)
    ELSE k \o <<"(">> \o ValueText(v) \o <<")">>

\* the terms of the non-default fields of m, in the order of m
RECURSIVE ExpectedTerms(_)
ExpectedTerms(m) ==
    IF m = <<>> THEN <<>>
    ELSE IF NonDefault(Head(m).v)
         THEN <<TermFor(Head(m).k, Head(m).v)>> \o ExpectedTerms(Tail(m))
         ELSE ExpectedTerms(Tail(m))

\* ' AND '.join(ts)
RECURSIVE Join(_)
Join(ts) ==
    IF ts = <<>> THEN <<>>
    ELSE IF Len(ts) = 1 THEN ts[1]
    ELSE ts[1] \o Sep \o Join(Tail(ts))

\* occurrences of ' AND ' inside the values of the non-default fields
RECURSIVE CountInValues(_)
CountInValues(m) ==
    IF m = <<>> THEN 0
    ELSE (IF NonDefault(Head(m).v) THEN Count(ValueText(Head(m).v), Sep) ELSE 0)
         + CountInValues(Tail(m))

NFields == Cardinality(NonDefaultFields(ssp))

C7_SingleField ==
    returned =>
        /\ NFields = 0 => search_string = <<>>
        /\ \A i \in 1..Len(ssp) :
               NonDefaultFields(ssp) = {i} =>
                   search_string = TermFor(ssp[i].k, ssp[i].v)

C7_Witness ==
    /\ returned
    /\ Len(ssp) = 3
    /\ NFields = 1
    /\ search_string = <<"P", "U", "B", "Y", "E", "A", "R", " ", ">", " ", "2", "0", "1", "5">>

\* C8: a field is left out exactly when its value is '' or 0, every other
\* field gives exactly one term, and a mapping that gives OPENACCESS the
\* value 0 yields a query with an OPENACCESS term.
C8_DefaultsOmitted ==
    returned =>
        /\ search_string = Join(ExpectedTerms(ssp))
        /\ \A i \in 1..Len(ssp) :
               (ssp[i].k = OPENACCESS /\ ssp[i].v = IntVal(0))
                   => Contains(search_string, OPENACCESS \o <<"(">>)

\* C9: at every point of the loop the string built is the terms of the
\* non-default fields seen so far, in the order of the mapping, with one
\* " AND " between consecutive terms and none before the first or after the
\* last.
C9_OrderedJoin ==
    /\ qi <= Len(ssp) + 1
    /\ search_string = Join(ExpectedTerms(SubSeq(ssp, 1, qi - 1)))

C9_Witness ==
    /\ returned
    /\ Len(ssp) = 3
    /\ ssp[1].k = end_year
    /\ ssp[3].k = ISSN
    /\ search_string = <<"P", "U", "B", "Y", "E", "A", "R", " ", "<", " ", "2", "0", "1", "5", " ", "A", "N", "D", " ", "I", "S", "S", "N", "(", "0", ")">>

(***************************************************************************)
(* Claims about create_url, checked under SpecURL.                         *)
(***************************************************************************)
\* the fixed text of the two URLs around the substituted values
SearchPrefix ==
    <<"h", "t", "t", "p", "s", ":", "/", "/", "a", "p", "i", ".",
      "e", "l", "s", "e", "v", "i", "e", "r", ".", "c", "o", "m",
      "/", "c", "o", "n", "t", "e", "n", "t", "/", "s", "e", "a",
      "r", "c", "h", "/", "s", "c", "o", "p", "u", "s", "?", "q",
      "u", "e", "r", "y", "=">>

SearchKeyPart == <<"&", "a", "p", "i", "K", "e", "y", "=">>

DoiPrefix ==
    <<"h", "t", "t", "p", "s", ":", "/", "/", "a", "p", "i", ".",
      "e", "l", "s", "e", "v", "i", "e", "r", ".", "c", "o", "m",
      "/", "c", "o", "n", "t", "e", "n", "t", "/", "a", "b", "s",
      "t", "r", "a", "c", "t", "/", "d", "o", "i", "/">>

DoiKeyPart == <<"?", "&", "a", "p", "i", "K", "e", "y", "=">>

\* C10: the URL create_url returns contains the query (or DOI) and the API
\* key verbatim, each in the place of its placeholder, and no placeholder of
\* the template is left: every brace of the URL comes from the two values.
C10_UrlRoundTrip ==
    (full_url # NoURL) =>
        /\ Contains(full_url, url_arg)
        /\ Contains(full_url, url_key)
        /\ Count(full_url, <<"{">>)
               = Count(url_arg, <<"{">>) + Count(url_key, <<"{">>)
        /\ Count(full_url, <<"}">>)
               = Count(url_arg, <<"}">>) + Count(url_key, <<"}">>)
        /\ url_kind = "search" =>
               full_url = SearchPrefix \o url_arg \o SearchKeyPart \o url_key
        /\ url_kind = "doi" =>
               full_url = DoiPrefix \o url_arg \o DoiKeyPart \o url_key

C10_Witness ==
    /\ full_url # NoURL
    /\ url_kind = "search"
    /\ url_arg = <<"{", "a">>
    /\ url_key = <<"k">>
    /\ Contains(full_url, <<"=", "{", "a", "&">>)

(***************************************************************************)
(* Further claims about the pagination loop, checked under Spec.           *)
(***************************************************************************)
\* C11: every fetch of a run, the first included, comes after one pause
\* taken in the same iteration: the run has slept once per fetch, and the
\* iteration that issued the latest GET called time.sleep first.
C11_PauseBeforeEachFetch ==
    /\ sleeps = fetches
    /\ fetches >= 1 => calls = <<"sleep", "get">>
    /\ fetches = 0 => calls = <<>>

C11_Witness ==
    /\ fetches = 3
    /\ sleeps = 3
    /\ calls = <<"sleep", "get">>
    /\ lastPage.current = "A"
    /\ outcome = "RUNNING"

\* C12: an invocation of connect_to_endpoint issues one GET and leaves the
\* parameter mapping (here its default dict) as it was.
C12_NoSideEffect ==
    [][(fetches' = fetches + 1) => (params' = params)]_vars

\* this step is an iteration of the loop that received a page
GotPage == fetches' = fetches + 1 /\ lastStatus' = 200

\* C13: a page with cursor.current # '*' and cursor.next = cursor.current,
\* received while a ResultSet exists, ends the run in DONE: the loop does not
\* iterate again and df is what it was before that page was fetched.
C13_LastPageStops ==
    [][(/\ GotPage
        /\ lastPage'.current # "*"
        /\ lastPage'.next = lastPage'.current
        /\ (fetches >= 1 \/ df # NoDF))
       => (/\ outcome' = "DONE"
           /\ ~flag'
           /\ ~CanIterate'
           /\ df' = df
           /\ df' # NoDF)]_vars

C13_Witness ==
    /\ outcome = "DONE"
    /\ fetches = 3
    /\ lastPage = [current |-> "B", next |-> "B", entry |-> <<"r1">>]
    /\ df = <<"r2", "r3">>

\* C14: the first GET of a run carries cursor '*', every later GET carries
\* the cursor.next of the page the previous GET returned, and a middle page
\* (current # '*', next # current) puts its records after all the records
\* df held.
C14_CursorChainAndAppend ==
    [][/\ (fetches' = fetches + 1) =>
              sent' = (IF fetches = 0 THEN "*" ELSE lastPage.next)
       /\ (/\ GotPage
           /\ lastPage'.current # "*"
           /\ lastPage'.next # lastPage'.current
           /\ df # NoDF)
          => df' = df \o lastPage'.entry]_vars

C14_Witness ==
    /\ outcome = "RUNNING"
    /\ fetches = 3
    /\ sent = "B"
    /\ lastPage.current = "B"
    /\ df = <<"r1", "r2", "r3", "r1">>

\* C15: the quota guard acts only on a page with cursor.current = '*': a run
\* is in QUOTA_EXCEEDED only after such a page, and a page with another
\* cursor.current whose total-results exceeds rate-remaining (zero included)
\* leaves the run without warning, in RUNNING (and able to iterate while the
\* explored depth allows) or DONE.
C15_GuardOnlyOnStarPage ==
    /\ outcome = "QUOTA_EXCEEDED" => (lastPage.current = "*" /\ lastOver)
    /\ (lastStatus = 200 /\ err = NoErr /\ lastPage.current # "*" /\ lastOver)
           => /\ outcome \in {"RUNNING", "DONE"}
              /\ ~warned
              /\ outcome = "RUNNING" => flag
              /\ (outcome = "RUNNING" /\ fetches < MaxFetches) => CanIterate
              /\ outcome = "DONE" => lastPage.next = lastPage.current

C15_Witness ==
    /\ outcome = "RUNNING"
    /\ fetches = 2
    /\ lastPage.current = "A"
    /\ lastPage.next = "B"
    /\ lastOver
    /\ ~warned

\* C16: a page with cursor.current = '*' never ends the run in DONE, also
\* when its cursor.next is '*' too, and whenever one is received df becomes
\* exactly that page's records.
C16_StarPageFirst ==
    (lastStatus = 200 /\ lastPage.current = "*") =>
        /\ outcome \in {"RUNNING", "QUOTA_EXCEEDED"}
        /\ df = lastPage.entry
        /\ lastStar = fetches

C16_Witness ==
    /\ fetches = 3
    /\ lastPage = [current |-> "*", next |-> "*", entry |-> <<"r1">>]
    /\ recsSeen = 5
    /\ df = <<"r1">>
    /\ outcome = "RUNNING"

(***************************************************************************)
(* Termination of the pagination loop, checked under SpecLive.             *)
(***************************************************************************)
Terminal == outcome \in {"DONE", "QUOTA_EXCEEDED", "ERROR"}

\* the latest response of the run is a failure, or a page with
\* cursor.current # '*' and cursor.next = cursor.current
ServedStop ==
    \/ lastStatus \in FailStatuses
    \/ /\ lastStatus = 200
       /\ lastPage.current # "*"
       /\ lastPage.next = lastPage.current

\* C17 (as stated, second half): after a page whose cursor.next differs from
\* cursor.current, or a quota-passing page with current = next = '*', the
\* loop has not terminated.
C17_Original ==
    (/\ lastStatus = 200
     /\ \/ lastPage.next # lastPage.current
        \/ (lastPage.current = "*" /\ lastPage.next = "*" /\ ~lastOver))
        => outcome = "RUNNING"

\* the latest response keeps the loop going: a '*' page on which the quota
\* guard does not fire, or a page with another cursor.current whose
\* cursor.next differs from it, received while df is bound
ServedContinue ==
    /\ lastStatus = 200
    /\ err # NameError
    /\ \/ lastPage.current = "*" /\ ~lastOver
       \/ lastPage.current # "*" /\ lastPage.next # lastPage.current

\* C17 (amended): a failure or a page with current # '*', next = current ends
\* the run at once; a running loop goes on fetching until it has terminated
\* (or made MaxFetches fetches, where the model stops following it); and the
\* loop has not terminated after any page on which the quota guard does not
\* fire and that is a '*' page (whatever its next) or has next # current
\* with df bound: a server that only returns such pages keeps it running.
C17_Termination ==
    /\ [](ServedStop => Terminal)
    /\ [](ServedContinue => (outcome = "RUNNING" /\ flag))
    /\ (outcome = "RUNNING") ~> (Terminal \/ fetches = MaxFetches)

C17_Witness ==
    /\ outcome = "RUNNING"
    /\ flag
    /\ fetches = 3
    /\ firstStop = 0
    /\ lastPage.current = "*"
    /\ lastPage.next = "*"
    /\ ~lastOver
    /\ lastStar = 3
    /\ firstCur = "*"
    /\ recsSeen = 0

====
